---- MODULE Spec2Model ----
(***************************************************************************)
(* Presence-duration accounting of the status tracker bot (src/main.py),   *)
(* its report aggregation, its two slash commands and its daily report.    *)
(*                                                                         *)
(* Time is a whole number of seconds on the JST wall clock; a calendar day *)
(* is DayLen seconds long, and strftime("%Y-%m-%d") of a time is the index *)
(* of its day.  A Firestore document is a function from field keys to      *)
(* numbers; the key of '{status}_seconds' is Field(NoDate, status) and the *)
(* key of '{date}_{status}_seconds' is Field(date, status).                *)
(***************************************************************************)
EXTENDS Integers, Sequences, FiniteSets, Bags, TLC

\* ---------------------------------------------------------------- bounds
MaxTime == 2
DayLen == 2
MaxInflight == 2
MaxReady == 1

\* ------------------------------------------------------------ the members
SelfId == 0
Humans == {1}
Ids == {SelfId} \cup Humans

\* member.bot (the bot's own account is the bot of the model)
IsBot(m) == m = SelfId

\* The four statuses the bot accounts for.
CanonicalStatuses == {"online", "idle", "dnd", "offline"}

\* The values of str(member.status) the events of Spec carry.  'dnd' is
\* left out of them: no line of the handlers tells it from 'idle'.
RawStatuses == {"online", "idle", "offline", "invisible"}

\* Every value str(member.status) can take: the documented ones and a value
\* a later platform version may add ("streaming" stands for it; discord.py's
\* try_enum keeps an unrecognised value as it is).
AllStatuses == CanonicalStatuses \cup {"invisible", "streaming"}

NoDate == -1

\* ------------------------------------------------------------- the state
VARIABLES
    now,                  \* datetime.now(tz_jst)
    db,                   \* the global db is not None
    last_status_updates,  \* the global dict: user id -> (status key, time)
    docs,                 \* the user_status collection: id -> document
    pending,              \* on_presence_update coroutines at their await
    ready,                \* on_ready coroutines at 'await guild.chunk()'
    config_doc_ref,       \* self.config_doc_ref is not None
    report_channel_id,    \* self.report_channel_id (0: None)
    settings,             \* report_channel_id of the settings document (0: absent)
    daily_running,        \* self.daily_report.is_running()
    last_event,           \* history: the handler that ran last and how it left
    interactions,         \* the slash command invocations, in order of arrival
    run,                  \* the current or the last run of daily_report
    user_data,            \* the last call of get_user_report_data and its result
    formatted             \* the last call of format_time and its result

vars == <<now, db, last_status_updates, docs, pending, ready, config_doc_ref,
          report_channel_id, settings, daily_running, last_event,
          interactions, run, user_data, formatted>>

\* The variables of the commands and of the daily report; the presence and
\* membership handlers never touch them.
reporting == <<interactions, run, user_data, formatted>>

Channels == {1}
NoChannel == 0

\* ------------------------------------------------------------- helpers
\* d[k] = v on a dict
Put(d, k, v) == [x \in DOMAIN d \cup {k} |-> IF x = k THEN v ELSE d[x]]

\* del d[k]
Del(d, k) == [x \in DOMAIN d \ {k} |-> d[x]]

\* the 'invisible' -> 'offline' folding applied to str(status)
Normalize(raw) == IF raw = "invisible" THEN "offline" ELSE raw

\* The status keys a bucket can be named after.
StatusKeys == {Normalize(raw) : raw \in AllStatuses}

\* t.strftime("%Y-%m-%d")
DateOf(t) == t \div DayLen

\* the field names f'{status}_seconds' and f'{date}_{status}_seconds'
Field(date, status) == [date |-> date, status |-> status]

\* firestore.Increment(amount) on one field of a document's fields
Increment(fields, key, amount) ==
    Put(fields, key, (IF key \in DOMAIN fields THEN fields[key] ELSE 0) + amount)

\* mutant: the per-day bucket is left out of the write
MergeWriteLifetimeOnly(doc, field_name, date_field_name, duration, at) ==
    [fields |-> Increment(doc.fields, field_name, duration),
     last_updated |-> at]

\* mutant: the set is made without merge=True, so the document is replaced
MergeWriteReplaces(doc, field_name, date_field_name, duration, at) ==
    [fields |-> Increment(Increment([k \in {} |-> 0], field_name, duration),
                          date_field_name, duration),
     last_updated |-> at]

\* The dict passed to doc_ref.set(..., merge=True): both buckets are
\* incremented and last_updated is set.
MergeWrite(doc, field_name, date_field_name, duration, at) ==
    [fields |-> Increment(Increment(doc.fields, field_name, duration),
                          date_field_name, duration),
     last_updated |-> at]

EmptyDoc == [fields |-> [k \in {} |-> 0], last_updated |-> 0]

DocOf(m) == IF m \in DOMAIN docs THEN docs[m] ELSE EmptyDoc

Remove(s, i) == [j \in 1..(Len(s) - 1) |-> IF j < i THEN s[j] ELSE s[j + 1]]

\* history: how the last handler step left; only the ways of leaving
\* on_presence_update without a store write are told apart, and the steps
\* of on_member_join and on_ready that found a record and kept it
Event(op, uid, path) ==
    IF path \in {"skipped", "unchanged", "no_write", "kept"} THEN path ELSE "other"

\* The value get_user_report_data returns: None (exists is FALSE) or the
\* dict user_data.
Absent ==
    [exists |-> FALSE, online |-> 0, idle |-> 0, dnd |-> 0, offline |-> 0,
     total |-> 0, online_time_s |-> 0, offline_time_s |-> 0]

\* No call of get_user_report_data has been made.
NoCall == [member |-> SelfId, days |-> 0, data |-> Absent]

\* format_time has not been called.
NoFormat == [seconds |-> 0, returned |-> FALSE, negative |-> FALSE, parts |-> <<>>]

\* daily_report has not fired.
NoRun ==
    [pc |-> "idle", loaded |-> FALSE, channel |-> NoChannel, members |-> <<>>,
     attempts |-> <<>>]

\* ------------------------------------------------------------- Init
\* The process has just started: init_firestore has set db or left it None,
\* the table is empty and no handler has run.  The collections are empty
\* (a first deployment).
Init ==
    /\ now = 0
    /\ db \in BOOLEAN
    /\ last_status_updates = [k \in {} |-> 0]
    /\ docs = [k \in {} |-> 0]
    /\ pending = EmptyBag
    /\ ready = <<>>
    /\ config_doc_ref = FALSE
    /\ report_channel_id = NoChannel
    /\ settings = NoChannel
    /\ daily_running = FALSE
    /\ last_event = "other"
    /\ interactions = <<>>
    /\ run = NoRun
    /\ user_data = NoCall
    /\ formatted = NoFormat

\* The wall clock advances.
Tick ==
    /\ now < MaxTime
    /\ now' = now + 1
    /\ UNCHANGED <<db, last_status_updates, docs, pending, ready, config_doc_ref,
                   report_channel_id, settings, daily_running, last_event>>
    /\ UNCHANGED reporting

\* ------------------------------------------------- on_presence_update
\* mutant: the check of db is missing
SkippedOnlySelf(uid) == uid = SelfId

\* 'if after.id == self.user.id or db is None: return'
Skipped(uid) == uid = SelfId \/ ~db

\* mutant: 'invisible' is not folded into 'offline'
CurrentStatusKeyUnfolded(after) == after

\* current_status_key
CurrentStatusKey(after) == Normalize(after)

\* prev_status_key: the recorded status, or str(before.status) folded (a
\* discord.py status value is never falsy, so the 'offline' default of the
\* conditional expression is never taken)
PrevStatusKey(uid, before) ==
    IF uid \in DOMAIN last_status_updates
    THEN last_status_updates[uid].status
    ELSE Normalize(before)

\* prev_time: the recorded time, or now
PrevTime(uid) ==
    IF uid \in DOMAIN last_status_updates
    THEN last_status_updates[uid].since
    ELSE now

\* 'if current_status_key == prev_status_key: return'
StatusUnchanged(cur, prev) == cur = prev

\* (now - prev_time).total_seconds()
Duration(at, prev_time) == at - prev_time

\* mutant: a duration of zero is written too
ShouldWriteNonNegative(duration) == duration >= 0

\* 'if duration > 0:'
ShouldWrite(duration) == duration > 0

\* field_name
FieldName(prev) == Field(NoDate, prev)

\* mutant: the date is that of the observation
DateFieldNameOfNow(prev_time, at, prev) == Field(DateOf(at), prev)

\* date_field_name: the date is that of prev_time
DateFieldName(prev_time, at, prev) == Field(DateOf(prev_time), prev)

\* the tuple stored in last_status_updates
Record(status, since) == [status |-> status, since |-> since]

\* mutant: the new status is credited instead of the previous one
FrameCreditsNew(uid, cur, prev, prev_time, at) ==
    [uid |-> uid, cur |-> cur, prev |-> cur, prev_time |-> prev_time, at |-> at]

\* The coroutine's locals while it waits for asyncio.to_thread(doc_ref.set).
Frame(uid, cur, prev, prev_time, at) ==
    [uid |-> uid, cur |-> cur, prev |-> prev, prev_time |-> prev_time, at |-> at]

\* The handler from its start to its first await or its return.
on_presence_update(uid, before, after) ==
    LET cur == CurrentStatusKey(after)
        prev == PrevStatusKey(uid, before)
        prev_time == PrevTime(uid)
        duration == Duration(now, prev_time)
    IN
    /\ IF Skipped(uid)
       THEN /\ last_event' = Event("on_presence_update", uid, "skipped")
            /\ UNCHANGED <<last_status_updates, pending>>
       ELSE IF StatusUnchanged(cur, prev)
       THEN /\ last_event' = Event("on_presence_update", uid, "unchanged")
            /\ UNCHANGED <<last_status_updates, pending>>
       ELSE IF ShouldWrite(duration)
       THEN /\ BagCardinality(pending) < MaxInflight
            /\ pending' = pending (+) SetToBag({Frame(uid, cur, prev, prev_time, now)})
            /\ last_event' = Event("on_presence_update", uid, "awaiting")
            /\ UNCHANGED last_status_updates
       ELSE /\ last_status_updates' = Put(last_status_updates, uid, Record(cur, now))
            /\ last_event' = Event("on_presence_update", uid, "no_write")
            /\ UNCHANGED pending
    /\ UNCHANGED <<now, db, docs, ready, config_doc_ref, report_channel_id,
                   settings, daily_running>>
    /\ UNCHANGED reporting

\* The try/except around the write catches every Exception, so the
\* coroutine goes on to the record update whether the set raised or not.
ContinuesAfterWrite(ok) == TRUE

\* The handler from its await to its end.  The worker thread runs
\* doc_ref.set(..., merge=True), which lands (ok) or raises; the coroutine
\* then resumes and runs
\* 'last_status_updates[user_id] = (current_status_key, now)'
\* with the now it took before the await.
on_presence_update_resume(f, ok) ==
    /\ BagIn(f, pending)
    /\ docs' = IF ok
               THEN Put(docs, f.uid,
                        MergeWrite(DocOf(f.uid), FieldName(f.prev),
                                   DateFieldName(f.prev_time, f.at, f.prev),
                                   Duration(f.at, f.prev_time), f.at))
               ELSE docs
    /\ last_status_updates' =
           IF ContinuesAfterWrite(ok)
           THEN Put(last_status_updates, f.uid, Record(f.cur, f.at))
           ELSE last_status_updates
    /\ pending' = pending (-) SetToBag({f})
    /\ last_event' = Event("on_presence_update", f.uid, "resumed")
    /\ UNCHANGED <<now, db, ready, config_doc_ref, report_channel_id, settings,
                   daily_running>>
    /\ UNCHANGED reporting

\* ------------------------------------------------- on_member_join / remove
on_member_join(m, status) ==
    /\ IF IsBot(m)
       THEN UNCHANGED last_status_updates
       ELSE IF m \notin DOMAIN last_status_updates
       THEN /\ last_status_updates' =
                   Put(last_status_updates, m, Record(Normalize(status), now))
       ELSE UNCHANGED last_status_updates
    /\ last_event' = Event("on_member_join", m,
                            IF ~IsBot(m) /\ m \in DOMAIN last_status_updates
                            THEN "kept" ELSE "done")
    /\ UNCHANGED <<now, db, docs, pending, ready, config_doc_ref,
                   report_channel_id, settings, daily_running>>
    /\ UNCHANGED reporting

on_member_remove(m) ==
    /\ IF IsBot(m)
       THEN UNCHANGED last_status_updates
       ELSE IF m \in DOMAIN last_status_updates
       THEN last_status_updates' = Del(last_status_updates, m)
       ELSE UNCHANGED last_status_updates
    /\ last_event' = Event("on_member_remove", m, "done")
    /\ UNCHANGED <<now, db, docs, pending, ready, config_doc_ref,
                   report_channel_id, settings, daily_running>>
    /\ UNCHANGED reporting

\* ------------------------------------------------------------ on_ready
\* _initialize_db_references: sets the reference and answers True only
\* when db is there and the reference is not set yet.
InitializesDbReferences == db /\ ~config_doc_ref

\* _load_config: the channel id self.report_channel_id holds afterwards;
\* got tells whether config_doc_ref.get returned (it may raise).
LoadedChannel(got) ==
    IF InitializesDbReferences /\ got /\ settings # NoChannel
    THEN settings
    ELSE report_channel_id

\* on_ready up to 'await guild.chunk()': the configuration is loaded, the
\* commands are synced and now is taken.
on_ready(got) ==
    /\ Len(ready) < MaxReady
    /\ config_doc_ref' = (config_doc_ref \/ InitializesDbReferences)
    /\ report_channel_id' = LoadedChannel(got)
    /\ ready' = Append(ready, now)
    /\ last_event' = Event("on_ready", SelfId, "awaiting")
    /\ UNCHANGED <<now, db, last_status_updates, docs, pending, settings,
                   daily_running>>
    /\ UNCHANGED reporting

\* mutant: the member loop gives every member that is no bot a new record
InitialRecordsOverwriting(members, status, at) ==
    [m \in DOMAIN last_status_updates \cup {x \in members : ~IsBot(x)} |->
        IF m \in members /\ ~IsBot(m)
        THEN Record(Normalize(status[m]), at)
        ELSE last_status_updates[m]]

\* The records the member loop leaves: every member of the guild that is
\* no bot and has no record gets (status, the now taken before the await).
InitialRecords(members, status, at) ==
    [m \in DOMAIN last_status_updates \cup {x \in members : ~IsBot(x)} |->
        IF m \in DOMAIN last_status_updates
        THEN last_status_updates[m]
        ELSE Record(Normalize(status[m]), at)]

\* on_ready after guild.chunk(): chunked tells whether it returned (when it
\* raises, the except clauses skip the guild's loop); then the daily task
\* is started when a channel is configured.
on_ready_resume(i, chunked, members, status) ==
    /\ last_status_updates' =
           IF chunked THEN InitialRecords(members, status, ready[i])
           ELSE last_status_updates
    /\ daily_running' = (daily_running \/ report_channel_id # NoChannel)
    /\ ready' = Remove(ready, i)
    /\ last_event' = Event("on_ready", SelfId,
                            IF chunked /\ \E m \in members :
                                   ~IsBot(m) /\ m \in DOMAIN last_status_updates
                            THEN "kept" ELSE "done")
    /\ UNCHANGED <<now, db, docs, pending, config_doc_ref, report_channel_id,
                   settings>>
    /\ UNCHANGED reporting

\* guild.members: the bot itself and the humans that are in the guild
Guilds == {{SelfId} \cup h : h \in SUBSET Humans}

\* before.status is read only when the handler is not skipped and the
\* member has no record: otherwise one value stands for all of them.
BeforeStatuses(uid, S) ==
    IF uid \in DOMAIN last_status_updates \/ Skipped(uid)
    THEN {"offline"}
    ELSE S

\* The platform delivers an event and its handler runs to its first await
\* or to its end; the statuses the event carries are drawn from S.
Delivered(S) ==
    \/ \E uid \in Ids, after \in S :
           \E before \in BeforeStatuses(uid, S) : on_presence_update(uid, before, after)
    \/ \E m \in Ids, status \in S : on_member_join(m, status)
    \/ \E m \in Ids : on_member_remove(m)
    \/ \E got \in BOOLEAN : on_ready(got)

\* A suspended handler goes on after its await.
Resumed(S) ==
    \/ \E f \in BagToSet(pending), ok \in BOOLEAN : on_presence_update_resume(f, ok)
    \/ \E i \in 1..Len(ready), chunked \in BOOLEAN, members \in Guilds,
          status \in [Humans -> S] :
           on_ready_resume(i, chunked, members, status)

\* discord.py runs every handler as a task of its own: a handler that is
\* suspended at an await does not keep the next event from being handled.
Next ==
    \/ Tick
    \/ Delivered(RawStatuses)
    \/ Resumed(RawStatuses)

Spec == Init /\ [][Next]_vars

\* The same handlers, one at a time (no event is handled while a handler is
\* suspended), over every status value.
NextSerial ==
    \/ Tick
    \/ (pending = EmptyBag /\ ready = <<>> /\ Delivered(AllStatuses))
    \/ Resumed(AllStatuses)

SpecSerial == Init /\ [][NextSerial]_vars

\* The same handlers, one at a time, over a time that reaches into the
\* second day, so that one status is credited on two dates.
MaxDaysTime == 3

TickDays ==
    /\ now < MaxDaysTime
    /\ now' = now + 1
    /\ UNCHANGED <<db, last_status_updates, docs, pending, ready, config_doc_ref,
                   report_channel_id, settings, daily_running, last_event>>
    /\ UNCHANGED reporting

NextDays ==
    \/ TickDays
    \/ (pending = EmptyBag /\ ready = <<>> /\ Delivered(RawStatuses))
    \/ Resumed(RawStatuses)

SpecDays == Init /\ [][NextDays]_vars

\* ==================================================== get_user_report_data
MaxSeconds == 2
MaxWrites == 2

\* The values of the days parameter: /report takes Range[int, 1, 30] and
\* daily_report passes 1.
Days == {1, 2}

\* The times a report is made at: from the second day on, so that every
\* date of a window of Days days is a date of the calendar.  A report
\* reads the clock once, and no step of the reporting specifications moves
\* it.
ReportTimes == DayLen..(2 * DayLen)

\* One merge write of on_presence_update: duration seconds of status that
\* began on the day date.
WriteTime(w) == w.date * DayLen + w.duration

Writes(at) ==
    {w \in [status : StatusKeys, date : 0..DateOf(at), duration : 1..MaxSeconds] :
        WriteTime(w) <= at}

Apply(doc, w) ==
    MergeWrite(doc, Field(NoDate, w.status), Field(w.date, w.status), w.duration,
               WriteTime(w))

\* The documents n writes or fewer, made in the order of their times, leave.
RECURSIVE DocsAfter(_, _)
DocsAfter(n, at) ==
    IF n = 0 THEN {EmptyDoc}
    ELSE LET D == DocsAfter(n - 1, at)
         IN D \cup {Apply(d, w) : <<d, w>> \in
                        {x \in D \X Writes(at) : WriteTime(x[2]) >= x[1].last_updated}}

\* The documents the collection can hold at the time at (a document exists
\* once a write has landed).
StoredDocs(at) == DocsAfter(MaxWrites, at) \ {EmptyDoc}

\* The collections over the members: each member has a document or none.
Collections(members, D) == UNION {[S -> D] : S \in SUBSET members}

\* data.get(field, 0)
Get(data, field) == IF field \in DOMAIN data THEN data[field] ELSE 0

\* mutant: a missing document is read as an empty one
DocExistsAlways(m) == TRUE

\* 'doc.exists'
DocExists(m) == m \in DOMAIN docs

\* mutant: i = 0 is yesterday
TargetDateFromYesterday(at, i) == DateOf(at - (i + 1) * DayLen)

\* target_date: (now - timedelta(days=i)).strftime("%Y-%m-%d")
TargetDate(at, i) == DateOf(at - i * DayLen)

\* status_total_sec: 'for i in range(days)' over data.get(field, 0)
RECURSIVE StatusTotalSec(_, _, _, _)
StatusTotalSec(data, status, at, days) ==
    IF days = 0 THEN 0
    ELSE StatusTotalSec(data, status, at, days - 1)
         + Get(data, Field(TargetDate(at, days - 1), status))

\* mutant: 'dnd' is not counted as online time
OnlineStatusesWithoutDnd == {"online", "idle"}

\* 'if status in ['online', 'idle', 'dnd']'
OnlineStatuses == {"online", "idle", "dnd"}

\* The sum of status_total_sec over the statuses of S.
RECURSIVE SumStatuses(_, _, _, _)
SumStatuses(S, data, at, days) ==
    IF S = {} THEN 0
    ELSE LET st == CHOOSE x \in S : TRUE
         IN StatusTotalSec(data, st, at, days)
            + SumStatuses(S \ {st}, data, at, days)

\* user_data as the loop over statuses leaves it
Summary(data, at, days) ==
    [exists |-> TRUE,
     online |-> StatusTotalSec(data, "online", at, days),
     idle |-> StatusTotalSec(data, "idle", at, days),
     dnd |-> StatusTotalSec(data, "dnd", at, days),
     offline |-> StatusTotalSec(data, "offline", at, days),
     total |-> SumStatuses(CanonicalStatuses, data, at, days),
     online_time_s |-> SumStatuses(CanonicalStatuses \cap OnlineStatuses, data, at, days),
     offline_time_s |-> SumStatuses(CanonicalStatuses \cap {"offline"}, data, at, days)]

\* The value get_user_report_data returns at the time at; got tells whether
\* doc_ref.get returned (when it raises, None is returned).
GetUserReportData(m, days, got, at) ==
    IF ~got THEN Absent
    ELSE IF ~DocExists(m) THEN Absent
    ELSE Summary(DocOf(m).fields, at, days)

\* A call of get_user_report_data (its callers call it only when db is
\* there).
get_user_report_data(m, days, got) ==
    /\ db
    /\ user_data' = [member |-> m, days |-> days,
                     data |-> GetUserReportData(m, days, got, now)]
    /\ UNCHANGED <<now, db, last_status_updates, docs, pending, ready,
                   config_doc_ref, report_channel_id, settings, daily_running,
                   last_event, interactions, run, formatted>>

\* The process runs with storage, at some time, over the documents that
\* earlier writes have left.
InitAggregate ==
    /\ now \in ReportTimes
    /\ db = TRUE
    /\ last_status_updates = [k \in {} |-> 0]
    /\ docs \in Collections(Humans, StoredDocs(now))
    /\ pending = EmptyBag
    /\ ready = <<>>
    /\ config_doc_ref = FALSE
    /\ report_channel_id = NoChannel
    /\ settings = NoChannel
    /\ daily_running = FALSE
    /\ last_event = "other"
    /\ interactions = <<>>
    /\ run = NoRun
    /\ user_data = NoCall
    /\ formatted = NoFormat

NextAggregate ==
    \E m \in Humans, days \in Days, got \in BOOLEAN : get_user_report_data(m, days, got)

SpecAggregate == InitAggregate /\ [][NextAggregate]_vars

\* ============================================================ the commands
MaxInteractions == 2

\* mutant: a summary of total 0 is rendered as a report
SendUserReportEmbedUnlessAbsent(data) ==
    IF ~data.exists THEN <<"notice">> ELSE <<"embed">>

\* 'if not user_data or user_data.get('total', 0) == 0'
NothingToReport(data) == ~data.exists \/ data.total = 0

\* send_user_report_embed: the follow-up messages it sends, the 'no
\* activity found' notice or the report embed.
SendUserReportEmbed(data) ==
    IF NothingToReport(data) THEN <<"notice">>
    ELSE IF data.online_time_s + data.offline_time_s = 0 THEN <<"notice">>
    ELSE <<"embed">>

\* An invocation of a slash command: its arguments, whether its coroutine
\* waits for the store or has returned, and the follow-up messages sent.
Interaction(command, member, days, channel, pc, followups) ==
    [command |-> command, member |-> member, days |-> days, channel |-> channel,
     pc |-> pc, followups |-> followups]

\* mutant: the command returns without a follow-up when db is None
DbUnavailableSilent == <<>>

\* the follow-up of a command that finds db is None
DbUnavailable == <<"db_unavailable">>

\* /report from its start to 'await asyncio.to_thread(doc_ref.get)' or, when
\* db is None, to its return.
report_command(member, days) ==
    /\ Len(interactions) < MaxInteractions
    /\ interactions' =
           Append(interactions,
                  IF ~db
                  THEN Interaction("report", member, days, NoChannel, "done",
                                   DbUnavailable)
                  ELSE Interaction("report", member, days, NoChannel, "awaiting",
                                   <<>>))
    /\ UNCHANGED <<now, db, last_status_updates, docs, pending, ready,
                   config_doc_ref, report_channel_id, settings, daily_running,
                   last_event, run, user_data, formatted>>

\* /report from the return of the read to its end: get_user_report_data
\* gives its value and send_user_report_embed sends its follow-up.
report_command_resume(i, got) ==
    /\ i \in DOMAIN interactions
    /\ interactions[i].command = "report"
    /\ interactions[i].pc = "awaiting"
    /\ LET c == interactions[i]
           data == GetUserReportData(c.member, c.days, got, now)
       IN /\ user_data' = [member |-> c.member, days |-> c.days, data |-> data]
          /\ interactions' =
                 [interactions EXCEPT ![i].pc = "done",
                                      ![i].followups = @ \o SendUserReportEmbed(data)]
    /\ UNCHANGED <<now, db, last_status_updates, docs, pending, ready,
                   config_doc_ref, report_channel_id, settings, daily_running,
                   last_event, run, formatted>>

\* /set_report_channel from its start to the await of the store write in
\* _save_config, or to its return when db is None or when
\* _initialize_db_references answers False (_save_config then returns False
\* and the failure message is sent).
set_report_channel_command(channel) ==
    /\ Len(interactions) < MaxInteractions
    /\ interactions' =
           Append(interactions,
                  IF ~db
                  THEN Interaction("set_report_channel", SelfId, 0, channel, "done",
                                   DbUnavailable)
                  ELSE IF ~InitializesDbReferences
                  THEN Interaction("set_report_channel", SelfId, 0, channel, "done",
                                   <<"save_failed">>)
                  ELSE Interaction("set_report_channel", SelfId, 0, channel,
                                   "awaiting", <<>>))
    /\ config_doc_ref' = (config_doc_ref \/ InitializesDbReferences)
    /\ UNCHANGED <<now, db, last_status_updates, docs, pending, ready,
                   report_channel_id, settings, daily_running, last_event, run,
                   user_data, formatted>>

\* /set_report_channel from the store write to its end: the write lands
\* (ok) or raises; after a write that landed the channel is kept in memory,
\* the daily task is started unless it runs, and success is reported.
set_report_channel_command_resume(i, ok) ==
    /\ i \in DOMAIN interactions
    /\ interactions[i].command = "set_report_channel"
    /\ interactions[i].pc = "awaiting"
    /\ settings' = IF ok THEN interactions[i].channel ELSE settings
    /\ report_channel_id' = IF ok THEN interactions[i].channel ELSE report_channel_id
    /\ daily_running' = (daily_running \/ ok)
    /\ interactions' =
           [interactions EXCEPT ![i].pc = "done",
                                ![i].followups =
                                    @ \o (IF ok THEN <<"saved">> ELSE <<"save_failed">>)]
    /\ UNCHANGED <<now, db, last_status_updates, docs, pending, ready,
                   config_doc_ref, last_event, run, user_data, formatted>>

\* ========================================================== daily_report
\* The members of the guild of the report channel.
ReportHumans == {1, 2}

\* target_guild.members: the bot and some of the humans, in some order.
GuildMembers ==
    {g \in UNION {[1..n -> {SelfId} \cup ReportHumans] :
                      n \in 1..(Cardinality(ReportHumans) + 1)} :
        /\ \E j \in DOMAIN g : g[j] = SelfId
        /\ \A j, k \in DOMAIN g : j # k => g[j] # g[k]}

\* mutant: the channel is used without the 'if not report_channel' check
RunOutcomeUnresolved(is_ready, has_db, channel, resolvable) ==
    IF ~is_ready \/ ~has_db \/ channel = NoChannel THEN "not_met" ELSE "running"

\* How a firing goes on after the configuration is loaded: the run is
\* skipped when the bot is not ready, db is None or no channel is set, and
\* when get_channel finds no channel for the id.
RunOutcome(is_ready, has_db, channel, resolvable) ==
    IF ~is_ready \/ ~has_db \/ channel = NoChannel THEN "not_met"
    ELSE IF ~resolvable THEN "invalid_channel"
    ELSE "running"

\* A firing of the daily task, which wakes at 00:00 JST or as much later as
\* the event loop lets it: _load_config, the run conditions, get_channel and
\* the member list of the channel's guild.
daily_report(got, is_ready, resolvable, members) ==
    /\ daily_running
    /\ run.pc # "running"
    /\ config_doc_ref' = (config_doc_ref \/ InitializesDbReferences)
    /\ report_channel_id' = LoadedChannel(got)
    /\ LET outcome == RunOutcome(is_ready, db, LoadedChannel(got), resolvable)
       IN \* loaded: _load_config went on to read the settings document
          run' = [pc |-> outcome,
                  loaded |-> InitializesDbReferences,
                  channel |-> LoadedChannel(got),
                  members |-> IF outcome = "running" THEN members ELSE <<>>,
                  attempts |-> <<>>]
    /\ UNCHANGED <<now, db, last_status_updates, docs, pending, ready, settings,
                   daily_running, last_event, interactions, user_data,
                   formatted>>

\* mutant: a delivery that raises ends the run
RemainingUnlessRaised(members, ok) == IF ok THEN Tail(members) ELSE <<>>

\* The members the loop still has to visit after a delivery: the except
\* clause logs the failure and the loop goes on.
Remaining(members, ok) == Tail(members)

\* One iteration of 'for member in target_guild.members': a bot is passed
\* over; get_user_report_data is called with days=1 (got: the read
\* returned); a member with nothing to report is passed over; otherwise
\* report_channel.send is attempted and returns (ok) or raises.
daily_report_member(got, ok) ==
    /\ run.pc = "running"
    /\ run.members # <<>>
    /\ LET m == Head(run.members)
           data == GetUserReportData(m, 1, got, now)
           left(sent) == IF sent THEN Remaining(run.members, ok)
                         ELSE Tail(run.members)
           after(sent) ==
               [run EXCEPT !.members = left(sent),
                           !.attempts = IF sent
                                        THEN Append(@, [member |-> m, ok |-> ok])
                                        ELSE @,
                           !.pc = IF left(sent) = <<>> THEN "done" ELSE "running"]
       IN IF IsBot(m)
          THEN /\ run' = after(FALSE)
               /\ UNCHANGED user_data
          ELSE /\ user_data' = [member |-> m, days |-> 1, data |-> data]
               /\ run' = after(~NothingToReport(data))
    /\ UNCHANGED <<now, db, last_status_updates, docs, pending, ready,
                   config_doc_ref, report_channel_id, settings, daily_running,
                   last_event, interactions, formatted>>

\* ------------------------------------------- the reporting specifications
\* The documents of the reporting specifications: one write of 'online'.
ReportDocs(at) ==
    {d \in DocsAfter(1, at) \ {EmptyDoc} :
        \A k \in DOMAIN d.fields : k.status = "online"}

\* The process has just started at some time, over the documents and the
\* settings document that earlier runs of the process have left.
InitReport(members) ==
    /\ now \in ReportTimes
    /\ db \in BOOLEAN
    /\ last_status_updates = [k \in {} |-> 0]
    /\ docs \in Collections(members, ReportDocs(now))
    /\ pending = EmptyBag
    /\ ready = <<>>
    /\ config_doc_ref = FALSE
    /\ report_channel_id = NoChannel
    /\ settings \in {NoChannel} \cup Channels
    /\ daily_running = FALSE
    /\ last_event = "other"
    /\ interactions = <<>>
    /\ run = NoRun
    /\ user_data = NoCall
    /\ formatted = NoFormat

\* on_ready over a guild whose members are all online.
Connected ==
    \/ \E got \in BOOLEAN : on_ready(got)
    \/ \E i \in 1..Len(ready), chunked \in BOOLEAN :
           on_ready_resume(i, chunked, Ids, [h \in Humans |-> "online"])

\* A command is invoked.
Invoked ==
    \/ \E member \in Humans, days \in Days : report_command(member, days)
    \/ \E channel \in Channels : set_report_channel_command(channel)

\* A command goes on after its await.
Answered ==
    \/ \E i \in DOMAIN interactions, got \in BOOLEAN : report_command_resume(i, got)
    \/ \E i \in DOMAIN interactions, ok \in BOOLEAN :
           set_report_channel_command_resume(i, ok)

NextCommands == Connected \/ Invoked \/ Answered

SpecCommands == InitReport(Humans) /\ [][NextCommands]_vars

\* The commands alone.  An await of a command returns or raises: the
\* coroutine is resumed.
NextAnswers == Invoked \/ Answered

SpecAnswers == InitReport(Humans) /\ [][NextAnswers]_vars /\ WF_vars(Answered)

\* The inputs a firing reads: the settings document only when
\* _load_config gets to its read, get_channel only when the run conditions
\* are met, the member list only when the channel is resolved.  For an
\* input that is not read one value stands for all.
GotValues == IF InitializesDbReferences THEN BOOLEAN ELSE {TRUE}

ResolvableValues(got, is_ready) ==
    IF RunOutcome(is_ready, db, LoadedChannel(got), TRUE) = "running"
    THEN BOOLEAN
    ELSE {TRUE}

MemberLists(got, is_ready, resolvable) ==
    IF RunOutcome(is_ready, db, LoadedChannel(got), resolvable) = "running"
    THEN GuildMembers
    ELSE {<<SelfId>>}

\* The daily task fires and visits the members.
Reported ==
    \/ \E got \in GotValues, is_ready \in BOOLEAN :
           \E resolvable \in ResolvableValues(got, is_ready) :
               \E members \in MemberLists(got, is_ready, resolvable) :
                   daily_report(got, is_ready, resolvable, members)
    \/ \E got \in BOOLEAN, ok \in BOOLEAN : daily_report_member(got, ok)

\* The daily task is the one on_ready starts for the stored channel.
NextDaily == Connected \/ Reported

SpecDaily == InitReport(ReportHumans) /\ [][NextDaily]_vars

\* ============================================================ format_time
\* The divisors of the two divmod calls.
SecondsPerHour == 3600
SecondsPerMinute == 60

\* The arguments of format_time: whole seconds up to an hour, a minute and
\* a second, and their negatives.
MaxFormatSeconds == 3700
FormatInputs == (0 - MaxFormatSeconds)..MaxFormatSeconds

Abs(x) == IF x < 0 THEN 0 - x ELSE x

\* One component of the text: 'hours' is f"{hours}時間", 'minutes' is
\* f"{minutes}分", and 'seconds' is f"{seconds_int + milliseconds:.2f}秒",
\* whose value is kept in hundredths of a second as the two decimals show it.
Part(unit, value) == [unit |-> unit, value |-> value]

\* The list 'parts' of format_time for whole seconds >= 0 (milliseconds,
\* seconds - int(seconds), is 0 for a whole number).
Parts(seconds) ==
    LET total_seconds_int == seconds
        hours == total_seconds_int \div SecondsPerHour
        remainder == total_seconds_int % SecondsPerHour
        minutes == remainder \div SecondsPerMinute
        seconds_int == remainder % SecondsPerMinute
        milliseconds == seconds - total_seconds_int
        parts == (IF hours > 0 THEN <<Part("hours", hours)>> ELSE <<>>)
                 \o (IF minutes > 0 THEN <<Part("minutes", minutes)>> ELSE <<>>)
    IN IF seconds_int > 0 \/ milliseconds > 0 \/ parts = <<>>
       THEN Append(parts, Part("seconds", 100 * (seconds_int + milliseconds)))
       ELSE parts

\* The text format_time returns: the parts joined by blanks, in parentheses
\* for a negative argument.
FormatTime(seconds) ==
    [seconds |-> seconds, returned |-> TRUE, negative |-> seconds < 0,
     parts |-> Parts(Abs(seconds))]

\* format_time has been called with an argument and has not returned.
Called(seconds) == [NoFormat EXCEPT !.seconds = seconds]

\* format_time runs and returns.
format_time ==
    /\ ~formatted.returned
    /\ formatted' = FormatTime(formatted.seconds)
    /\ UNCHANGED <<now, db, last_status_updates, docs, pending, ready,
                   config_doc_ref, report_channel_id, settings, daily_running,
                   last_event, interactions, run, user_data>>

\* The process as Init leaves it, with one call of format_time under way.
InitFormat ==
    /\ now = 0
    /\ db \in BOOLEAN
    /\ last_status_updates = [k \in {} |-> 0]
    /\ docs = [k \in {} |-> 0]
    /\ pending = EmptyBag
    /\ ready = <<>>
    /\ config_doc_ref = FALSE
    /\ report_channel_id = NoChannel
    /\ settings = NoChannel
    /\ daily_running = FALSE
    /\ last_event = "other"
    /\ interactions = <<>>
    /\ run = NoRun
    /\ user_data = NoCall
    /\ formatted \in {Called(seconds) : seconds \in FormatInputs}

NextFormat == format_time

SpecFormat == InitFormat /\ [][NextFormat]_vars

\* send_user_report_embed: the lines of the embed field '詳細内訳', one for
\* each status in the order of the list 'statuses' whose seconds are > 0:
\* f"{get_status_emoji(status)}: {format_time(sec)}".
RECURSIVE StatusFieldValue(_, _)
StatusFieldValue(statuses, data) ==
    IF statuses = <<>> THEN <<>>
    ELSE LET status == Head(statuses)
             sec == data[status]
             rest == StatusFieldValue(Tail(statuses), data)
         IN IF sec > 0
            THEN <<[status |-> status, time |-> FormatTime(sec)]>> \o rest
            ELSE rest

\* statuses = ['online', 'idle', 'dnd', 'offline']
Statuses == <<"online", "idle", "dnd", "offline">>

\* ================================================================ claims
\* The value of a bucket of a member's document in the collection D (0 when
\* the field or the document is missing).
BucketIn(D, m, date, status) ==
    IF m \in DOMAIN D /\ Field(date, status) \in DOMAIN D[m].fields
    THEN D[m].fields[Field(date, status)]
    ELSE 0

Bucket(m, date, status) == BucketIn(docs, m, date, status)

\* The dates a bucket can be named after.
Dates == 0..DateOf(MaxTime)

\* The fields of m's document after a step are those before it with the
\* buckets in keys raised by d, and nothing else changed.
RaisedBy(m, keys, d) ==
    LET old == DocOf(m).fields
        new == docs'[m].fields
    IN /\ m \in DOMAIN docs'
       /\ DOMAIN new = DOMAIN old \cup keys
       /\ \A k \in DOMAIN new :
              new[k] = (IF k \in DOMAIN old THEN old[k] ELSE 0)
                       + (IF k \in keys THEN d ELSE 0)
       /\ \A x \in DOMAIN docs' \ {m} : x \in DOMAIN docs /\ docs'[x] = docs[x]
       /\ DOMAIN docs' = DOMAIN docs \cup {m}

\* The handler of a presence event for uid has a record (s, since) to read,
\* storage is there and uid is not the bot.
Tracked(uid) == uid # SelfId /\ db /\ uid \in DOMAIN last_status_updates

\* C1: a presence event for a member with record (s, since), storage
\* available, whose folded new status differs from s and whose duration
\* d = now - since is positive, issues exactly one merge write, for the
\* member's document, of the previous status s and the date of since; and a
\* write that lands raises the lifetime bucket of s and the bucket of
\* (date(since), s) by exactly d and changes no other bucket.
C1_OneIncrementOfD ==
    [][ /\ \A uid \in Ids, before \in AllStatuses, after \in AllStatuses :
             ( /\ Tracked(uid)
               /\ Normalize(after) # last_status_updates[uid].status
               /\ now - last_status_updates[uid].since > 0
               /\ on_presence_update(uid, before, after) )
             => /\ pending' = pending (+) SetToBag({
                       [uid |-> uid, cur |-> Normalize(after),
                        prev |-> last_status_updates[uid].status,
                        prev_time |-> last_status_updates[uid].since,
                        at |-> now]})
                /\ docs' = docs
        /\ \A f \in BagToSet(pending) :
             on_presence_update_resume(f, TRUE)
             => /\ RaisedBy(f.uid, {Field(NoDate, f.prev),
                                    Field(DateOf(f.prev_time), f.prev)},
                            f.at - f.prev_time)
                /\ BagCardinality(pending') = BagCardinality(pending) - 1
      ]_vars

\* A write of d = 2 seconds of 'online' that began on day 0 has landed.
C1_Witness ==
    /\ 1 \in DOMAIN docs
    /\ Bucket(1, NoDate, "online") = 2
    /\ Bucket(1, 0, "online") = 2
    /\ DOMAIN docs[1].fields = {Field(NoDate, "online"), Field(0, "online")}

\* C2: a presence event whose folded new status equals the status of the
\* member's record (an activity-only or duplicate event) issues no store
\* write and leaves the record, status and since, as it is.
C2_NoOpWhenUnchanged ==
    [][ \A uid \in Ids, before \in AllStatuses, after \in AllStatuses :
          ( /\ uid \in DOMAIN last_status_updates
            /\ Normalize(after) = last_status_updates[uid].status
            /\ on_presence_update(uid, before, after) )
          => UNCHANGED <<docs, pending, last_status_updates>>
      ]_vars

\* The last handler left because the status had not changed, for a member
\* whose record is older than now.
C2_Witness ==
    /\ last_event = "unchanged"
    /\ db
    /\ 1 \in DOMAIN last_status_updates
    /\ last_status_updates[1].since < now

\* The seconds credited to a member's lifetime buckets.
RECURSIVE SumLifetime(_, _)
SumLifetime(m, keys) ==
    IF keys = {} THEN 0
    ELSE LET k == CHOOSE x \in keys : TRUE
         IN Bucket(m, NoDate, k) + SumLifetime(m, keys \ {k})

TotalCredited(m) == SumLifetime(m, StatusKeys)

\* C3: each interval is credited once: under every interleaving of the
\* handlers the seconds credited to a member's lifetime buckets never exceed
\* the time that has passed since the member's first record was made (the
\* clock starts at 0, so that time is at most now).
C3_CreditedAtMostElapsed ==
    \A m \in Ids : TotalCredited(m) <= now

\* C4: a genuine status change whose duration is <= 0 issues no store write
\* and touches no bucket, and the record is overwritten with (new status,
\* now): after online@T0, idle@T0+d, offline@T0+d the second change finds a
\* record since now, so only 'online' is credited.
C4_NoWriteButAdvance ==
    [][ \A uid \in Ids, before \in AllStatuses, after \in AllStatuses :
          LET has == uid \in DOMAIN last_status_updates
              prev == IF has THEN last_status_updates[uid].status
                      ELSE Normalize(before)
              since == IF has THEN last_status_updates[uid].since ELSE now
          IN ( /\ uid # SelfId
               /\ db
               /\ Normalize(after) # prev
               /\ now - since <= 0
               /\ on_presence_update(uid, before, after) )
             => /\ docs' = docs
                /\ pending' = pending
                /\ last_status_updates' =
                       Put(last_status_updates, uid,
                           [status |-> Normalize(after), since |-> now])
      ]_vars

\* The scenario's end: 'online' was credited, then a change of zero duration
\* left the record (offline, now) and no write; 'idle' has no bucket.
C4_Witness ==
    /\ last_event = "no_write"
    /\ now = 1
    /\ 1 \in DOMAIN last_status_updates
    /\ last_status_updates[1] = [status |-> "offline", since |-> 1]
    /\ Bucket(1, NoDate, "online") = 1
    /\ Bucket(1, 0, "online") = 1
    /\ DOMAIN docs[1].fields = {Field(NoDate, "online"), Field(0, "online")}
    /\ pending = EmptyBag

\* C5: the per-day bucket a transition raises is that of the day on which
\* the previous status began (the date of the record's since), also when the
\* event is observed on a later day: the whole duration goes to that day and
\* no bucket of another day changes.
C5_CreditedToStartDay ==
    [][ /\ \A f \in BagToSet(pending') :
             CopiesIn(f, pending') > CopiesIn(f, pending)
             => /\ f.uid \in DOMAIN last_status_updates
                /\ f.prev_time = last_status_updates[f.uid].since
                /\ f.prev = last_status_updates[f.uid].status
                /\ f.at = now
        /\ \A f \in BagToSet(pending), ok \in BOOLEAN :
             on_presence_update_resume(f, ok)
             => /\ \A d \in Dates \ {DateOf(f.prev_time)}, st \in StatusKeys :
                       BucketIn(docs', f.uid, d, st) = Bucket(f.uid, d, st)
                /\ ok => BucketIn(docs', f.uid, DateOf(f.prev_time), f.prev)
                            = Bucket(f.uid, DateOf(f.prev_time), f.prev)
                              + (f.at - f.prev_time)
      ]_vars

\* The last write that landed was observed on a later day than day 0, and
\* only buckets of day 0 (and lifetime buckets) exist.
C5_Witness ==
    /\ 1 \in DOMAIN docs
    /\ DateOf(docs[1].last_updated) > 0
    /\ \E st \in StatusKeys : Bucket(1, 0, st) > 0
    /\ \A k \in DOMAIN docs[1].fields : k.date <= 0

\* C6: a store write that raises is not propagated, changes no bucket, the
\* record is overwritten with (new status, now) all the same, and the
\* interval of the failed write is not credited by a later event: no write
\* issued by a later event for the member reaches back before the failed
\* write's now.
C6_FailedWriteLost ==
    [][ \A f \in BagToSet(pending) :
          on_presence_update_resume(f, FALSE)
          => /\ docs' = docs
             /\ f.uid \in DOMAIN last_status_updates'
             /\ last_status_updates'[f.uid] = [status |-> f.cur, since |-> f.at]
             /\ \A g \in BagToSet(pending') :
                    (g.uid = f.uid /\ g.at > f.at) => g.prev_time >= f.at
      ]_vars

\* C7: a presence event for the bot's own id, or one handled while db is
\* None, issues no store write and leaves the whole table unchanged.
C7_SkippedLeavesAll ==
    [][ \A uid \in Ids, before \in AllStatuses, after \in AllStatuses :
          ( /\ (uid = SelfId \/ ~db)
            /\ on_presence_update(uid, before, after) )
          => UNCHANGED <<docs, pending, last_status_updates>>
      ]_vars

\* The last handler was skipped while storage was missing and the table held
\* a record.
C7_Witness ==
    /\ last_event = "skipped"
    /\ ~db
    /\ 1 \in DOMAIN last_status_updates

\* C8: a presence event (storage available, not the bot) for a member that
\* has no record issues no increment and leaves a record for the member
\* whose since is the event's time, whatever before and after are.
C8_SeedsRecord ==
    [][ \A uid \in Ids, before \in AllStatuses, after \in AllStatuses :
          ( /\ uid # SelfId
            /\ db
            /\ uid \notin DOMAIN last_status_updates
            /\ on_presence_update(uid, before, after) )
          => /\ docs' = docs
             /\ pending' = pending
             /\ uid \in DOMAIN last_status_updates'
             /\ last_status_updates'[uid].since = now
      ]_vars

\* C9: the status of every record and the status named by every bucket
\* field is one of the four canonical statuses, whatever raw statuses the
\* platform delivers.
C9_CanonicalOnly ==
    /\ \A m \in DOMAIN last_status_updates :
           last_status_updates[m].status \in CanonicalStatuses
    /\ \A m \in DOMAIN docs : \A k \in DOMAIN docs[m].fields :
           k.status \in CanonicalStatuses

\* C10: once a member has no record (on_member_remove deleted it), a record
\* for the member appears only when an event for the member that was
\* delivered afterwards is handled: on_ready, on_member_join or
\* on_presence_update, not the rest of a handler that was suspended.
C10_AbsentUntilNextEvent ==
    [][ \A m \in Humans :
          (m \notin DOMAIN last_status_updates /\ m \in DOMAIN last_status_updates')
          => \/ \E before \in RawStatuses, after \in RawStatuses :
                    on_presence_update(m, before, after)
             \/ \E status \in RawStatuses : on_member_join(m, status)
             \/ \E i \in 1..Len(ready), chunked \in BOOLEAN, members \in Guilds,
                   status \in [Humans -> RawStatuses] :
                    on_ready_resume(i, chunked, members, status)
      ]_vars

\* Every bucket a document can hold: the lifetime bucket and the per-day
\* buckets of every status key.
BucketDates == Dates \cup {NoDate}

\* C11: every lifetime bucket and every per-day bucket is non-negative and
\* never goes down over any sequence of events: a step leaves a bucket as it
\* is or raises it by a strictly positive amount, a bucket field that exists
\* is never deleted, and a field that appears holds a positive value.
C11_BucketsOnlyGrow ==
    [][ \A m \in Ids, date \in BucketDates, st \in StatusKeys :
          LET had == m \in DOMAIN docs /\ Field(date, st) \in DOMAIN docs[m].fields
              has == m \in DOMAIN docs' /\ Field(date, st) \in DOMAIN docs'[m].fields
              old == Bucket(m, date, st)
              new == BucketIn(docs', m, date, st)
          IN /\ old >= 0
             /\ new >= old
             /\ had => has
             /\ (has /\ ~had) => new > 0
      ]_vars

\* Two writes have landed in one document: the bucket of the first is still
\* there, unchanged, next to the bucket of the second.
C11_Witness ==
    /\ 1 \in DOMAIN docs
    /\ Bucket(1, NoDate, "online") = 1
    /\ Bucket(1, NoDate, "idle") = 1
    /\ docs[1].last_updated = 2

\* The dates of the window of a report made at the time at: the day of at
\* and the days - 1 days before it.
Window(at, days) == (DateOf(at) - days + 1)..DateOf(at)

\* The per-day bucket fields of data that lie in the window and name a
\* status of S.
InWindowKeys(data, at, days, S) ==
    {k \in DOMAIN data : k.date \in Window(at, days) /\ k.status \in S}

\* The sum of the fields keys of data.
RECURSIVE SumFields(_, _)
SumFields(data, keys) ==
    IF keys = {} THEN 0
    ELSE LET k == CHOOSE x \in keys : TRUE
         IN data[k] + SumFields(data, keys \ {k})

\* C12: for every stored document and every days >= 1 the summary
\* get_user_report_data returns has total equal to the sum of all per-day
\* buckets of the four canonical statuses inside the window, online_time_s
\* = online + idle + dnd, offline_time_s = offline, and online_time_s +
\* offline_time_s = total.
C12_TotalsAddUp ==
    [][ \A m \in Humans, days \in Days :
          (get_user_report_data(m, days, TRUE) /\ m \in DOMAIN docs)
          => LET r == user_data'.data
                 data == docs[m].fields
             IN /\ r.exists
                /\ r.total = SumFields(data, InWindowKeys(data, now, days,
                                                         CanonicalStatuses))
                /\ r.online_time_s = r.online + r.idle + r.dnd
                /\ r.offline_time_s = r.offline
                /\ r.online_time_s + r.offline_time_s = r.total
      ]_vars

\* A summary that counts seconds of 'dnd' as online time next to seconds of
\* 'offline'.
C12_Witness ==
    /\ user_data.data.exists
    /\ user_data.data.dnd > 0
    /\ user_data.data.offline > 0
    /\ user_data.data.online_time_s = user_data.data.dnd
    /\ user_data.data.total = user_data.data.dnd + user_data.data.offline

C14_AbsentOrZero ==
    [][ \A m \in Humans, days \in Days :
          get_user_report_data(m, days, TRUE)
          => LET r == user_data'.data
             IN /\ m \notin DOMAIN docs => ~r.exists
                /\ ( /\ m \in DOMAIN docs
                     /\ InWindowKeys(docs[m].fields, now, days, CanonicalStatuses) = {} )
                   => (r.exists /\ r.total = 0)
      ]_vars

\* A summary of total 0 was returned for a member whose document holds
\* seconds, all of them of days before the window.
C14_Witness ==
    /\ user_data.member = 1
    /\ user_data.days = 1
    /\ 1 \in DOMAIN docs
    /\ Bucket(1, NoDate, "online") > 0
    /\ user_data.data.exists
    /\ user_data.data.total = 0

\* The follow-up messages a step has added to the interaction i.
SentBy(i) ==
    SubSeq(interactions'[i].followups,
           (IF i \in DOMAIN interactions THEN Len(interactions[i].followups) ELSE 0) + 1,
           Len(interactions'[i].followups))

\* C15: send_user_report_embed sends the single 'no activity found' notice,
\* and no report embed, exactly when the summary is absent or its total is
\* 0; for every summary with total > 0 it sends one report embed and no
\* notice.
C15_NoticeOrEmbed ==
    [][ \A i \in DOMAIN interactions, got \in BOOLEAN :
          report_command_resume(i, got)
          => LET d == user_data'.data
             IN /\ (~d.exists \/ d.total = 0) => SentBy(i) = <<"notice">>
                /\ (d.exists /\ d.total > 0) => SentBy(i) = <<"embed">>
      ]_vars

\* A /report over a document whose seconds all lie before the window was
\* answered with the notice.
C15_Witness ==
    \E i \in DOMAIN interactions :
        /\ interactions[i].command = "report"
        /\ interactions[i].followups = <<"notice">>
        /\ user_data.member = interactions[i].member
        /\ user_data.days = interactions[i].days
        /\ user_data.data.exists
        /\ user_data.data.total = 0

\* C16: /set_report_channel, run while storage is available and with a
\* store write that succeeds, stores the chosen channel in the settings
\* document and in memory and reports success, in every reachable state:
\* also after on_ready has loaded the configuration or an earlier command
\* has set it.
C16_CommandSaves ==
    [][ /\ \A channel \in Channels :
             (set_report_channel_command(channel) /\ db)
             => interactions'[Len(interactions')].pc = "awaiting"
        /\ \A i \in DOMAIN interactions :
             set_report_channel_command_resume(i, TRUE)
             => /\ settings' = interactions[i].channel
                /\ report_channel_id' = interactions[i].channel
                /\ SentBy(i) = <<"saved">>
      ]_vars

\* C17: every firing of daily_report, not only the first, reads the
\* settings document again, so the channel the run uses is the one stored
\* at the time of the firing.
C17_ReloadsEveryFiring ==
    [][ \A got \in BOOLEAN, is_ready \in BOOLEAN, resolvable \in BOOLEAN,
          members \in GuildMembers :
          (daily_report(got, is_ready, resolvable, members) /\ db)
          => /\ run'.loaded
             /\ got => run'.channel = settings
      ]_vars

\* The ways a firing ends before the member loop.
Aborted == {"not_met", "invalid_channel"}

\* C18: a firing of daily_report delivers no message and aggregates for no
\* member when the channel id is unset, when it resolves to no channel, or
\* when db is None; the run ends there (it does not raise).  (A firing that
\* ends there keeps no member list, so one list stands for all of them.)
C18_AbortedRunDoesNothing ==
    [][ /\ \A is_ready \in BOOLEAN, has_db \in BOOLEAN, resolvable \in BOOLEAN,
             channel \in {NoChannel} \cup Channels :
             (channel = NoChannel \/ ~resolvable \/ ~has_db)
             => RunOutcome(is_ready, has_db, channel, resolvable) \in Aborted
        /\ \A got \in BOOLEAN, is_ready \in BOOLEAN, resolvable \in BOOLEAN :
             ( /\ run' # run
               /\ (LoadedChannel(got) = NoChannel \/ ~resolvable \/ ~db)
               /\ daily_report(got, is_ready, resolvable, <<SelfId>>) )
             => /\ run'.pc \in Aborted
                /\ run'.members = <<>>
                /\ run'.attempts = <<>>
                /\ user_data' = user_data
        /\ (run.pc \in Aborted /\ run' # run)
             => (run'.attempts = <<>> /\ user_data' = user_data)
      ]_vars

\* A firing found a channel id in memory that resolves to no channel and
\* ended there.
C18_Witness ==
    /\ run.pc = "invalid_channel"
    /\ run.channel # NoChannel
    /\ db
    /\ run.attempts = <<>>

\* C19: in a run that is not aborted, one delivery is attempted for each
\* member of the guild that is no bot and whose summary of one day exists
\* with total > 0, none for a bot or a member whose summary is absent or has
\* total 0, and a delivery that raises does not keep the members after it
\* from their turn.
C19_OneAttemptEach ==
    [][ \A got \in BOOLEAN, ok \in BOOLEAN :
          daily_report_member(got, ok)
          => LET m == Head(run.members)
                 d == user_data'.data
                 due == /\ m # SelfId
                        /\ got
                        /\ m \in DOMAIN docs
                        /\ SumFields(docs[m].fields,
                                     InWindowKeys(docs[m].fields, now, 1,
                                                  CanonicalStatuses)) > 0
             IN /\ run'.attempts = IF due
                                    THEN Append(run.attempts, [member |-> m, ok |-> ok])
                                    ELSE run.attempts
                /\ run'.members = Tail(run.members)
                /\ run'.pc = IF Tail(run.members) = <<>> THEN "done" ELSE "running"
                /\ \A j, k \in DOMAIN run'.attempts :
                       j # k => run'.attempts[j].member # run'.attempts[k].member
      ]_vars

\* A run has ended in which the first delivery raised and the delivery for
\* the member after it was made.
C19_Witness ==
    /\ run.pc = "done"
    /\ Len(run.attempts) = 2
    /\ ~run.attempts[1].ok
    /\ run.attempts[2].ok

\* C20: every invocation of /report and of /set_report_channel is in the end
\* answered with exactly one follow-up message, on every path: db is None,
\* the store read or write raises, the document is missing, the total is 0,
\* and success; and it never has more than one.
C20_AnsweredOnce ==
    \A i \in 1..MaxInteractions :
        /\ [](i \in DOMAIN interactions => Len(interactions[i].followups) <= 1)
        /\ (i \in DOMAIN interactions)
           ~> ( /\ i \in DOMAIN interactions
                /\ interactions[i].pc = "done"
                /\ Len(interactions[i].followups) = 1 )

\* Two invocations have been answered: a /report with the report embed and
\* a /set_report_channel with the failure message.
C20_Witness ==
    /\ Len(interactions) = 2
    /\ interactions[1].command = "report"
    /\ interactions[1].followups = <<"embed">>
    /\ interactions[2].command = "set_report_channel"
    /\ interactions[2].followups = <<"save_failed">>
    /\ interactions[2].pc = "done"

\* ---------------------------------------------------------------- C21
Units(f) == {f.parts[i].unit : i \in DOMAIN f.parts}

\* C21: for every whole number of seconds >= 0, the text of format_time is
\* not empty, has no hours component when the hours are zero, no minutes
\* component when the minutes are zero, and always has the seconds
\* component, also when the remaining seconds are zero (60, 3600).
C21_AlwaysSeconds ==
    (formatted.returned /\ formatted.seconds >= 0)
    => /\ formatted.parts # <<>>
       /\ (formatted.seconds \div SecondsPerHour = 0
           => "hours" \notin Units(formatted))
       /\ ((formatted.seconds % SecondsPerHour) \div SecondsPerMinute = 0
           => "minutes" \notin Units(formatted))
       /\ "seconds" \in Units(formatted)

\* ---------------------------------------------------------------- C22
\* C22: the summary the daily report takes for a member (days = 1) holds,
\* for each status, the per-day bucket of the calendar day before the day
\* of the run (yesterday).
C22_ReportsYesterday ==
    [][ \A got \in BOOLEAN, ok \in BOOLEAN :
          ( /\ daily_report_member(got, ok)
            /\ ~IsBot(Head(run.members))
            /\ got
            /\ Head(run.members) \in DOMAIN docs )
          => LET m == Head(run.members)
                 d == user_data'.data
             IN \A status \in CanonicalStatuses :
                    d[status] = Bucket(m, DateOf(now) - 1, status)
      ]_vars

\* ---------------------------------------------------------------- C23
\* The sum of the percentages of the lines, in tenths of a percent.
RECURSIVE SumPercent(_)
SumPercent(lines) ==
    IF lines = <<>> THEN 0 ELSE Head(lines).percent + SumPercent(Tail(lines))

\* C23: for every summary with total > 0, the report send_user_report_embed
\* renders has for each status with seconds > 0 a line that shows the
\* status's share of the total as a percentage, and the percentages add up
\* to 100 up to the rounding of each line.
C23_SharesShown ==
    [][ \A i \in DOMAIN interactions, got \in BOOLEAN :
          ( /\ report_command_resume(i, got)
            /\ user_data'.data.exists
            /\ user_data'.data.total > 0 )
          => LET d == user_data'.data
                 lines == StatusFieldValue(Statuses, d)
             IN /\ SentBy(i) = <<"embed">>
                /\ \A status \in CanonicalStatuses :
                       d[status] > 0
                       => \E k \in DOMAIN lines :
                              /\ lines[k].status = status
                              /\ "percent" \in DOMAIN lines[k]
                /\ (\A k \in DOMAIN lines : "percent" \in DOMAIN lines[k])
                   => /\ SumPercent(lines) >= 1000 - Len(lines)
                      /\ SumPercent(lines) <= 1000 + Len(lines)
      ]_vars

\* ---------------------------------------------------------------- C24
\* What a step that seeds records for the members of S may do: every
\* record stays as it is, a record is added for none but the members of S
\* that are no bots and have none, and no store write is issued.
SeedsOnlyMissing(S) ==
    /\ \A m \in DOMAIN last_status_updates :
           /\ m \in DOMAIN last_status_updates'
           /\ last_status_updates'[m] = last_status_updates[m]
    /\ \A m \in DOMAIN last_status_updates' \ DOMAIN last_status_updates :
           m \in S /\ ~IsBot(m)
    /\ docs' = docs
    /\ pending' = pending

\* C24: on_ready (a repeated one after a reconnect too) and on_member_join
\* never overwrite a record: for a member that has one, status and since
\* stay as they are; only members that are no bots and have no record get
\* one; and neither handler issues a store write.
C24_KeepsRecords ==
    [][ /\ \A m \in Ids, status \in AllStatuses :
               on_member_join(m, status)
               => /\ SeedsOnlyMissing({m})
                  /\ ~IsBot(m) => m \in DOMAIN last_status_updates'
        /\ \A i \in 1..Len(ready), chunked \in BOOLEAN, members \in Guilds,
              status \in [Humans -> AllStatuses] :
               on_ready_resume(i, chunked, members, status)
               => /\ SeedsOnlyMissing(members)
                  /\ chunked => \A m \in members :
                                    ~IsBot(m) => m \in DOMAIN last_status_updates'
      ]_vars

\* on_member_join or the member loop of on_ready has just found the record
\* of member 1, made at time 0 with 'idle', at a later time and kept it.
C24_Witness ==
    /\ last_event = "kept"
    /\ 1 \in DOMAIN last_status_updates
    /\ last_status_updates[1] = Record("idle", 0)
    /\ now > 0

\* ---------------------------------------------------------------- C25
\* The per-day bucket fields of a status in a document's fields.
PerDayKeys(data, status) ==
    {k \in DOMAIN data : k.date # NoDate /\ k.status = status}

\* C25: in every reachable state, for every member and status, the lifetime
\* bucket '{status}_seconds' equals the sum over all dates of the per-day
\* buckets '{date}_{status}_seconds'.
C25_LifetimeIsSumOfDays ==
    \A m \in Ids, status \in StatusKeys :
        Bucket(m, NoDate, status)
            = SumFields(DocOf(m).fields, PerDayKeys(DocOf(m).fields, status))

\* Member 1 has been credited one second of 'online' on each of two dates.
C25_Witness ==
    /\ Bucket(1, 0, "online") = 1
    /\ Bucket(1, 1, "online") = 1
    /\ Bucket(1, NoDate, "online") = 2

\* ---------------------------------------------------------------- C26
\* C26: whenever no on_presence_update handler is in flight, a record that
\* on_presence_update wrote last holds the new status and the observation
\* time of the event delivered last for the member, and under every
\* interleaving of handlers the since of a record never moves backwards.
\* As a property of steps: no step makes the since of a record that stays
\* earlier; and the handler whose write of the record leaves no handler in
\* flight writes the status and the time of its own event over a record
\* that no later event has made.
C26_SinceNeverBackwards ==
    [][ /\ \A m \in DOMAIN last_status_updates \cap DOMAIN last_status_updates' :
               last_status_updates'[m].since >= last_status_updates[m].since
        /\ \A f \in BagToSet(pending), ok \in BOOLEAN :
               (on_presence_update_resume(f, ok) /\ pending' = EmptyBag)
               => /\ last_status_updates'[f.uid] = Record(f.cur, f.at)
                  /\ f.uid \in DOMAIN last_status_updates
                     => last_status_updates[f.uid].since <= f.at
      ]_vars
====
